---- MODULE Spec2Model ----
(***************************************************************************)
(* A model of istanbul-to-vscode.                                          *)
(*                                                                         *)
(* Two implementations of the same design live in the repository:          *)
(*   "context" : src/index.ts, class IstanbulCoverageContext               *)
(*   "legacy"  : src/unnamed/part_000, class IstanbulCoverage              *)
(* The variable impl says which one a behaviour runs.  Operators that      *)
(* differ between the two take impl as their first parameter.              *)
(*                                                                         *)
(* JavaScript values are represented as follows.                           *)
(*   undefined (an object-valued result)  the record Absent                *)
(*   an Istanbul Location {line, column}  [line |-> l, column |-> c]       *)
(*   an Istanbul Location {} (no line)    EmptyLocation, without "line"    *)
(*   vscode.Position                      [line |-> l, character |-> c]    *)
(*   vscode.Range                         [start |-> p, end |-> q]         *)
(*   vscode.Location                      [uri |-> u, range |-> r]         *)
(*   a hit that is a boolean              [bool |-> b]                     *)
(*   a hit that is a number               [count |-> n]                    *)
(*   Record<string, T> with keys "0".."n-1" in Object.entries order        *)
(*                                        a sequence, key k at index k+1   *)
(***************************************************************************)
EXTENDS Integers, Sequences, FiniteSets, TLC

\* ------------------------------------------------------------------ bounds

\* Hit counts of the reports drawn are 0..MaxCount.
MaxCount == 2
\* Istanbul lines are 1..MaxLine; a location mapper may refuse any of the
\* 0-based lines 0..MaxLine.
MaxLine == 3
\* Istanbul columns are 0..MaxColumn.
MaxColumn == 1
\* A location mapper answers with a range 0..MaxWidth characters wide.
MaxWidth == 1
\* Hit-count tables handed to parseToSum alone have at most MaxEntries values,
\* an array value at most MaxArray elements.
MaxEntries == 2
MaxArray == 2

\* ------------------------------------------------------------------ values

Absent == [undefined |-> TRUE]

EmptyLocation == [column |-> 0]

IstanbulLocation(l, c) == [line |-> l, column |-> c]

IstanbulRange(a, b) == [start |-> a, end |-> b]

Position(l, c) == [line |-> l, character |-> c]

\* new vscode.Range(start, end), for start not after end (all that the
\* mappers drawn below produce; the host's handling of a reversed pair is
\* outside the repository).
Range(p, q) == [start |-> p, end |-> q]

\* new vscode.Location(uri, position): the range of a position is empty.
Location(uri, position) == [uri |-> uri, range |-> Range(position, position)]

Bool(b) == [bool |-> b]

Count(n) == [count |-> n]

TestCoverageCount(covered, total) == [covered |-> covered, total |-> total]

\* ------------------------------------------------------------ parseToSum

\* One value of a hit-count table: a number, or an array of numbers
\* (count instanceof Array).
Scalar(n) == [isArray |-> FALSE, n |-> n]

Array(a) == [isArray |-> TRUE, a |-> a]

\* The inner loop of parseToSum: for (const c of count) {...}, from element i
\* on, acc the running (covered, total).
RECURSIVE SumArray(_, _, _)
SumArray(count, i, acc) ==
    IF i > Len(count) THEN acc
    ELSE SumArray(count, i + 1,
                  TestCoverageCount(acc.covered + (IF count[i] # 0 THEN 1 ELSE 0),
                                    acc.total + 1))

\* The outer loop of parseToSum: for (const count of Object.values(p)) {...}.
RECURSIVE SumValues(_, _, _)
SumValues(p, k, acc) ==
    IF k > Len(p) THEN acc
    ELSE IF p[k].isArray
         THEN SumValues(p, k + 1, SumArray(p[k].a, 1, acc))
         ELSE SumValues(p, k + 1,
                        TestCoverageCount(acc.covered + (IF p[k].n # 0 THEN 1 ELSE 0),
                                          acc.total + 1))

\* A mutation of parseToSum: an array counts as one unit.
ParseToSumArrayAsOne(p) ==
    SumValues([k \in DOMAIN p |->
                 IF p[k].isArray
                 THEN Scalar(IF \E i \in DOMAIN p[k].a : p[k].a[i] # 0 THEN 1 ELSE 0)
                 ELSE p[k]], 1, TestCoverageCount(0, 0))

parseToSum(p) == SumValues(p, 1, TestCoverageCount(0, 0))

\* original.s and original.f hold numbers, original.b arrays of numbers.
ScalarTable(t) == [k \in DOMAIN t |-> Scalar(t[k])]

ArrayTable(t) == [k \in DOMAIN t |-> Array(t[k])]

\* ------------------------------------------------------- location mapping

\* vscode.Uri.file(path).  The path of the k-th entry of a report is
\* <<"out", k>>.
UriFile(path) == [scheme |-> "file", path |-> path]

CompiledUri == UriFile(<<"out", 1>>)

\* A location mapper: opts.mapLocation of IIstanbulCoverageOptions, or an
\* override of IstanbulCoverage.mapLocation.  configured = FALSE is the option
\* left unset (context) or the method not overridden (legacy).  A configured
\* mapper resolves to undefined for a position whose line is in dead, and
\* otherwise to a location of the same file that starts at the position and
\* is width characters wide.
Mappers ==
    {[configured |-> FALSE, dead |-> {}, width |-> 0]}
        \cup {[configured |-> TRUE, dead |-> d, width |-> w] :
                d \in SUBSET (0 .. MaxLine), w \in 0 .. MaxWidth}

\* What the promise of one call of the configured mapper resolves to.
MapperCall(mapper, uri, position) ==
    IF position.line \in mapper.dead
    THEN Absent
    ELSE [uri |-> uri,
          range |-> Range(position,
                          Position(position.line, position.character + mapper.width))]

IsIdentity(mapper) ==
    \/ ~mapper.configured
    \/ mapper.dead = {} /\ mapper.width = 0

\* context: mapLocation(opts, uri, location), the line made 0-based.
\* legacy: this.mapLocation(uri, range.start.line, range.start.column), called
\* by mapRange with the report's line as it stands; the method's default is
\* new vscode.Location(uri, new vscode.Position(line, column)).
mapLocation(i, mapper, uri, location) ==
    LET position == IF i = "context"
                    THEN Position(location.line - 1, location.column)
                    ELSE Position(location.line, location.column)
    IN  IF mapper.configured THEN MapperCall(mapper, uri, position)
        ELSE Location(uri, position)

\* A mutation of the join of mapRange: a range needs both endpoints.
JoinRangeBothOrNothing(start, end) ==
    IF start # Absent /\ end # Absent
    THEN Range(start.range.start, end.range.end)
    ELSE Absent

\* mapRange after its Promise.all: start and end are what the two mapLocation
\* calls resolved to.
JoinRange(start, end) ==
    IF start # Absent /\ end # Absent
    THEN Range(start.range.start, end.range.end)
    ELSE LET some == IF start # Absent THEN start ELSE end
         IN  IF some # Absent THEN some.range ELSE Absent

mapRange(i, mapper, uri, range) ==
    JoinRange(mapLocation(i, mapper, uri, range.start),
              mapLocation(i, mapper, uri, range.end))

\* ------------------------------------------------------------------ state

VARIABLES
    impl,       \* "context" | "legacy"
    mapper,     \* the location mapper in use, one of Mappers
    p,          \* parseToSum alone: its argument
    sum,        \* parseToSum alone: its result, NotCalled before the call
    range,      \* mapRange alone: the Istanbul range it is given
    mapped,     \* mapRange alone: what its two mapLocation calls resolved to
    rangeOut,   \* mapRange alone: its result, NotCalled before the call
    options,    \* the merged IIstanbulCoverageOptions (context), Absent (legacy)
    raw,        \* the FileCoverageData of the one report entry
    file,       \* the IstanbulFileCoverage made of it, Absent before
    pc,         \* the detail request: "idle" | "awaiting" | "returned"
    pending,    \* the mapper calls of the request that have not resolved
    thenRun,    \* the entries whose then-callback has run
    details,    \* the request's local array details
    result,     \* what the request returned, NotCalled before
    disk,       \* apply: what is at coverageDir/coverage-final.json
    dirExists,  \* apply: coverageDir has not been removed
    defaultOptions, \* apply: this.defaultOptions of the context
    fileMapper, \* apply: options.mapFileUri: "unset" | "remap" | "absent"
    applyPc,    \* apply: "idle" | "reading" | "registering" | "returned" | "threw"
    applyOpts,  \* apply: its argument opts
    thrown,     \* apply: the error it rejected with, Absent if none
    listeners,  \* apply: the listeners registered on run.onDidDispose
    pendingUris,\* apply: the entries whose mapFileUri call has not settled
    coverage,   \* apply: the files given to run.addCoverage, in order
    disposeCount, \* apply: the disposal notifications the run has fired
    rm,         \* apply: fs.rm: "none" | "pending" | "done" | "failed"
    rmCalls,    \* apply: how many times fs.rm has been called
    escaped,    \* apply: the errors that reached the code firing the disposal
    fault,      \* the one position for which the mapper's promise rejects or never settles
    rejected,   \* the mapper calls of the request whose promise has rejected
    callLog,    \* the invocations of the mapper, in the order they were made
    files,      \* several requests: the report given to applyJson or to the legacy class
    reqs        \* several requests: the state of each, by request number

sumVars == <<p, sum>>

rangeVars == <<range, mapped, rangeOut>>

inputVars == <<options, raw>>

detailVars == <<file, pc, pending, thenRun, details, result>>

applyVars == <<disk, dirExists, defaultOptions, fileMapper, applyPc, applyOpts, thrown,
               listeners, pendingUris, coverage, disposeCount, rm, rmCalls, escaped>>

faultVars == <<fault, rejected, callLog>>

pairVars == <<files, reqs>>

vars == <<impl, mapper, sumVars, rangeVars, inputVars, detailVars, applyVars, faultVars,
          pairVars>>

NotCalled == [notCalled |-> TRUE]

Impls == {"context", "legacy"}

NoMapper == [configured |-> FALSE, dead |-> {}, width |-> 0]

IstanbulLocations == {IstanbulLocation(l, c) : l \in 1 .. MaxLine, c \in 0 .. MaxColumn}

\* The ranges of a report: the start is not after the end.
IstanbulRanges ==
    {r \in {IstanbulRange(a, b) : a \in IstanbulLocations, b \in IstanbulLocations} :
        \/ r.start.line < r.end.line
        \/ r.start.line = r.end.line /\ r.start.column <= r.end.column}

SumIdle == p = <<>> /\ sum = NotCalled

DetailIdle ==
    /\ file = Absent
    /\ pc = "idle"
    /\ pending = {}
    /\ thenRun = {}
    /\ details = <<>>
    /\ result = NotCalled

NoInput == options = Absent /\ raw = Absent

\* A mapper all of whose promises resolve.
NoFault == [kind |-> "none"]

FaultIdle ==
    /\ fault = NoFault
    /\ rejected = {}
    /\ callLog = <<>>

PairIdle == files = <<>> /\ reqs = <<>>

\* Object spread {...a, ...b} of two option objects, an unset option being a
\* key the object does not have.
MergeOptions(a, b) ==
    [k \in DOMAIN a \cup DOMAIN b |-> IF k \in DOMAIN b THEN b[k] ELSE a[k]]

\* The initializer of defaultOptions.
BaseOptions == [removeCoverageDataAtEndOfRun |-> TRUE, booleanCounts |-> FALSE]

\* No option set: the empty object.
NoOptions == [k \in {} |-> TRUE]

ApplyIdle ==
    /\ disk = [state |-> "missing", entries |-> <<>>]
    /\ dirExists = TRUE
    /\ defaultOptions = BaseOptions
    /\ fileMapper = "unset"
    /\ applyPc = "idle"
    /\ applyOpts = NoOptions
    /\ thrown = Absent
    /\ listeners = {}
    /\ pendingUris = {}
    /\ coverage = <<>>
    /\ disposeCount = 0
    /\ rm = "none"
    /\ rmCalls = 0
    /\ escaped = {}

RangeIdle ==
    /\ range = IstanbulRange(IstanbulLocation(1, 0), IstanbulLocation(1, 0))
    /\ mapped = <<Absent, Absent>>
    /\ rangeOut = NotCalled

\* ------------------------------------------------- parseToSum on its own

Counts == 0 .. MaxCount

SeqsUpTo(S, n) == UNION {[1 .. m -> S] : m \in 0 .. n}

TableValues == {Scalar(n) : n \in Counts} \cup {Array(a) : a \in SeqsUpTo(Counts, MaxArray)}

Tables == SeqsUpTo(TableValues, MaxEntries)

InitSum ==
    /\ impl \in Impls
    /\ mapper = NoMapper
    /\ p \in Tables
    /\ sum = NotCalled
    /\ RangeIdle
    /\ NoInput
    /\ DetailIdle
    /\ PairIdle
    /\ FaultIdle
    /\ ApplyIdle

CallParseToSum ==
    /\ sum = NotCalled
    /\ sum' = parseToSum(p)
    /\ UNCHANGED <<applyVars, pairVars, faultVars, impl, mapper, p, rangeVars, inputVars,
                   detailVars>>

NextSum == CallParseToSum

SpecSum == InitSum /\ [][NextSum]_vars

\* The cells of a table: one per scalar value (index 0) and one per array
\* element.
Cells(t) ==
    {<<k, 0>> : k \in {j \in DOMAIN t : ~t[j].isArray}}
        \cup UNION {{<<k, i>> : i \in DOMAIN t[k].a} : k \in {j \in DOMAIN t : t[j].isArray}}

CellValue(t, c) == IF c[2] = 0 THEN t[c[1]].n ELSE t[c[1]].a[c[2]]

\* C1: the summary of a hit-count table has total = number of scalar entries
\* plus the lengths of all array entries, covered = number of nonzero scalars
\* plus nonzero array elements, and so 0 <= covered <= total.
C1_SummaryCounts ==
    sum # NotCalled =>
        /\ sum.total = Cardinality(Cells(p))
        /\ sum.covered = Cardinality({c \in Cells(p) : CellValue(p, c) # 0})
        /\ 0 <= sum.covered
        /\ sum.covered <= sum.total

\* A table with a scalar, an array of two elements, a zero and a nonzero
\* count has been summed.
C1_Witness ==
    /\ sum # NotCalled
    /\ \E k \in DOMAIN p : ~p[k].isArray
    /\ \E k \in DOMAIN p : p[k].isArray /\ Len(p[k].a) = 2
                              /\ p[k].a[1] = 0 /\ p[k].a[2] # 0

\* --------------------------------------------------- mapRange on its own

InitRange ==
    /\ impl \in Impls
    /\ mapper \in Mappers
    /\ range \in IstanbulRanges
    /\ mapped = <<Absent, Absent>>
    /\ rangeOut = NotCalled
    /\ SumIdle
    /\ NoInput
    /\ DetailIdle
    /\ PairIdle
    /\ FaultIdle
    /\ ApplyIdle

CallMapRange ==
    /\ rangeOut = NotCalled
    /\ mapped' = <<mapLocation(impl, mapper, CompiledUri, range.start),
                   mapLocation(impl, mapper, CompiledUri, range.end)>>
    /\ rangeOut' = mapRange(impl, mapper, CompiledUri, range)
    /\ UNCHANGED <<applyVars, pairVars, faultVars, impl, mapper, range, sumVars, inputVars,
                   detailVars>>

NextRange == CallMapRange

SpecRange == InitRange /\ [][NextRange]_vars

\* C3: mapRange follows the decision table: both endpoints mapped -> a new
\* range from the mapped start's range.start to the mapped end's range.end;
\* only the start mapped -> the mapped start's own range; only the end mapped
\* -> the mapped end's own range; neither -> absent.
C3_DecisionTable ==
    rangeOut # NotCalled =>
        LET start == mapped[1]
            end == mapped[2]
        IN  /\ (start # Absent /\ end # Absent) =>
                    /\ rangeOut # Absent
                    /\ rangeOut.start = start.range.start
                    /\ rangeOut.end = end.range.end
            /\ (start # Absent /\ end = Absent) => rangeOut = start.range
            /\ (start = Absent /\ end # Absent) => rangeOut = end.range
            /\ (start = Absent /\ end = Absent) => rangeOut = Absent

\* Only the start of a range was mapped, to a location that is not a single
\* point, and mapRange has answered.
C3_Witness ==
    /\ rangeOut # NotCalled
    /\ mapped[1] # Absent
    /\ mapped[2] = Absent
    /\ mapped[1].range.start # mapped[1].range.end

\* C4: with the identity mapper, or none configured, mapRange yields the
\* input's start and end with each line decremented once and each column
\* unchanged.
C4_IdentityRoundTrip ==
    (rangeOut # NotCalled /\ IsIdentity(mapper)) =>
        rangeOut = Range(Position(range.start.line - 1, range.start.column),
                         Position(range.end.line - 1, range.end.column))

\* What holds of both implementations: the columns are unchanged and the
\* lines are those the implementation's mapLocation hands to the mapper.
IdentityRoundTripPerImpl ==
    (rangeOut # NotCalled /\ IsIdentity(mapper)) =>
        LET d == IF impl = "context" THEN 1 ELSE 0
        IN  rangeOut = Range(Position(range.start.line - d, range.start.column),
                             Position(range.end.line - d, range.end.column))

\* ------------------------------------------------------- the report entry

\* The report of a three-line source: one branch group, one statement, one
\* function.
\*   1  function f() { if (x) {
\*   2    y();
\*   3  } [else {}] }
GroupLoc == IstanbulRange(IstanbulLocation(1, 0), IstanbulLocation(3, 1))

FirstOutcome == IstanbulRange(IstanbulLocation(1, 1), IstanbulLocation(2, 0))

SecondOutcome == IstanbulRange(IstanbulLocation(2, 1), IstanbulLocation(3, 1))

\* An outcome Istanbul gives no coordinates for: {start: {}, end: {}}.
ImplicitOutcome == [start |-> EmptyLocation, end |-> EmptyLocation]

StatementLoc == IstanbulRange(IstanbulLocation(2, 0), IstanbulLocation(2, 1))

FunctionLoc == IstanbulRange(IstanbulLocation(1, 0), IstanbulLocation(3, 0))

BranchTypes == {"if", "cond-expr"}

OutcomeLists == {<<FirstOutcome>>, <<FirstOutcome, SecondOutcome>>,
                 <<FirstOutcome, ImplicitOutcome>>}

FileCoverageData(path, type, locations, b, s, f) ==
    [path |-> path,
     statementMap |-> <<StatementLoc>>,
     s |-> <<s>>,
     branchMap |-> <<[loc |-> GroupLoc, type |-> type, locations |-> locations]>>,
     b |-> <<b>>,
     fnMap |-> <<[name |-> "f", loc |-> FunctionLoc]>>,
     f |-> <<f>>]

\* Every report entry of the shape above with hit counts in Counts; b[key] is
\* as long as branchMap[key].locations.
RawFiles ==
    UNION {{FileCoverageData(<<"out", 1>>, type, locations, b, s, f) :
                type \in BranchTypes, b \in [DOMAIN locations -> Counts],
                s \in Counts, f \in Counts} :
            locations \in OutcomeLists}

\* The implementation, its options and its mapper.  The legacy class has no
\* options: its hits are always booleans.
Configs ==
    {[impl |-> "context",
      options |-> MergeOptions(BaseOptions, [booleanCounts |-> bc]),
      mapper |-> mp] : bc \in BOOLEAN, mp \in Mappers}
        \cup {[impl |-> "legacy", options |-> Absent, mapper |-> mp] : mp \in Mappers}

\* ------------------------------------------------- IstanbulFileCoverage

\* A mutation of the constructor: only the entries whose range the mapper
\* resolves are counted.
IstanbulFileCoverageMappedOnly(uri, original, compiledUri, opts) ==
    LET Keep(map, t) ==
            SelectSeq([k \in DOMAIN t |-> [n |-> t[k], r |-> map[k]]],
                      LAMBDA x : mapRange(impl, mapper, compiledUri, x.r) # Absent)
    IN  [uri |-> uri,
         original |-> original,
         compiledUri |-> compiledUri,
         options |-> opts,
         statementCoverage |->
            parseToSum(ScalarTable([k \in DOMAIN Keep(original.statementMap, original.s)
                                      |-> Keep(original.statementMap, original.s)[k].n])),
         branchCoverage |-> parseToSum(ArrayTable(original.b)),
         declarationCoverage |-> parseToSum(ScalarTable(original.f)),
         detailedCoverage |-> Absent]

\* new IstanbulFileCoverage(uri, original, compiledUri, options): the
\* constructor of vscode.FileCoverage is given the three sums.
IstanbulFileCoverage(uri, original, compiledUri, opts) ==
    [uri |-> uri,
     original |-> original,
     compiledUri |-> compiledUri,
     options |-> opts,
     statementCoverage |-> parseToSum(ScalarTable(original.s)),
     branchCoverage |-> parseToSum(ArrayTable(original.b)),
     declarationCoverage |-> parseToSum(ScalarTable(original.f)),
     detailedCoverage |-> Absent]

\* ------------------------------------------------ loadDetailedCoverage

\* The label argument left undefined.
NoLabel == "undefined"

\* The detail records.  The field from names the report entry a record was
\* made of; it is not a field of the vscode object and no operator reads it.
StatementCoverage(executed, location, branches, from) ==
    [kind |-> "statement", executed |-> executed, location |-> location,
     branches |-> branches, from |-> from]

BranchCoverage(executed, location, label) ==
    [executed |-> executed, location |-> location, label |-> label]

DeclarationCoverage(name, executed, location, from) ==
    [kind |-> "declaration", name |-> name, executed |-> executed,
     location |-> location, from |-> from]

\* A mutation of mapCount: the flag is ignored, every hit is a boolean.
MapCountAlwaysBool(i, opts, n) == Bool(n > 0)

\* context: mapCount(opts, n).  legacy: !!n.
mapCount(i, opts, n) ==
    IF i = "context"
    THEN IF opts.booleanCounts THEN Bool(n > 0) ELSE Count(n)
    ELSE Bool(n # 0)

\* A mutation: the implicit outcome is put at the start of the group.
OutcomeRangeAtStart(i, mp, fc, branch, l) ==
    IF "line" \in DOMAIN l.start
    THEN mapRange(i, mp, fc.compiledUri, l)
    ELSE mapRange(i, mp, fc.compiledUri, IstanbulRange(branch.loc.start, branch.loc.start))

\* The Istanbul range mapRange is called with for outcome l of a branch
\* group: l itself, or the empty range at the end of the group.
OutcomeRange(i, mp, fc, branch, l) ==
    IF "line" \in DOMAIN l.start
    THEN mapRange(i, mp, fc.compiledUri, l)
    ELSE mapRange(i, mp, fc.compiledUri, IstanbulRange(branch.loc.end, branch.loc.end))

\* A mutation: hits = branchHit, the count of the last outcome.
HitsAssigned(counts, j, n) == IF n = 0 THEN 0 ELSE counts[n]

\* let hits = 0; for (...) hits += branchHit: the sum of counts[j..n].
RECURSIVE Hits(_, _, _)
Hits(counts, j, n) == IF j > n THEN 0 ELSE counts[j] + Hits(counts, j + 1, n)

\* A mutation: the type of the group is not looked at.
BranchLabelAnyType(type, i) == IF i = 0 THEN "if" ELSE "else"

\* The i-th outcome, counted from 0.
BranchLabel(type, i) == IF type = "if" THEN (IF i = 0 THEN "if" ELSE "else") ELSE NoLabel

\* A mutation of the callback of a branch group: the outcomes that did not
\* resolve are left out and the rest is emitted.
BranchThenPartial(i, mp, fc, key, dets) ==
    LET branch == fc.original.branchMap[key]
        loc == mapRange(i, mp, fc.compiledUri, branch.loc)
        branches == [j \in DOMAIN branch.locations |->
                        OutcomeRange(i, mp, fc, branch, branch.locations[j])]
        kept == SelectSeq([j \in DOMAIN branches |-> j], LAMBDA j : branches[j] # Absent)
    IN  IF loc = Absent THEN dets
        ELSE Append(dets,
                StatementCoverage(
                    mapCount(i, fc.options, Hits(fc.original.b[key], 1, Len(branches))),
                    loc,
                    [n \in DOMAIN kept |->
                        BranchCoverage(mapCount(i, fc.options, fc.original.b[key][kept[n]]),
                                       branches[kept[n]],
                                       BranchLabel(branch.type, kept[n] - 1))],
                    <<"b", key>>))

\* The callback of the Promise.all of one branch group, run once the group's
\* range and the ranges of all its outcomes are there.
BranchThen(i, mp, fc, key, dets) ==
    LET branch == fc.original.branchMap[key]
        loc == mapRange(i, mp, fc.compiledUri, branch.loc)
        branches == [j \in DOMAIN branch.locations |->
                        OutcomeRange(i, mp, fc, branch, branch.locations[j])]
    IN  IF loc = Absent \/ \E j \in DOMAIN branches : branches[j] = Absent
        THEN dets
        ELSE Append(dets,
                StatementCoverage(
                    mapCount(i, fc.options, Hits(fc.original.b[key], 1, Len(branches))),
                    loc,
                    [j \in DOMAIN branches |->
                        BranchCoverage(mapCount(i, fc.options, fc.original.b[key][j]),
                                       branches[j],
                                       BranchLabel(branch.type, j - 1))],
                    <<"b", key>>))

\* The callback of the mapRange of one statement.
StatementThen(i, mp, fc, key, dets) ==
    LET loc == mapRange(i, mp, fc.compiledUri, fc.original.statementMap[key])
    IN  IF loc # Absent
        THEN Append(dets, StatementCoverage(mapCount(i, fc.options, fc.original.s[key]),
                                            loc, <<>>, <<"s", key>>))
        ELSE dets

\* The callback of the mapRange of one function.
FunctionThen(i, mp, fc, key, dets) ==
    LET stmt == fc.original.fnMap[key]
        loc == mapRange(i, mp, fc.compiledUri, stmt.loc)
    IN  IF loc # Absent
        THEN Append(dets, DeclarationCoverage(stmt.name,
                                              mapCount(i, fc.options, fc.original.f[key]),
                                              loc, <<"f", key>>))
        ELSE dets

\* The promises pushed on todo, in the order of the three loops: the branch
\* groups, the statements, the functions, each in key order.
Entries(fc) ==
    [k \in DOMAIN fc.original.branchMap |-> <<"b", k>>]
        \o [k \in DOMAIN fc.original.statementMap |-> <<"s", k>>]
        \o [k \in DOMAIN fc.original.fnMap |-> <<"f", k>>]

EntryThen(i, mp, fc, e, dets) ==
    CASE e[1] = "b" -> BranchThen(i, mp, fc, e[2], dets)
      [] e[1] = "s" -> StatementThen(i, mp, fc, e[2], dets)
      [] e[1] = "f" -> FunctionThen(i, mp, fc, e[2], dets)

\* The callbacks of the entries es[order[k]], k = n, n+1, ..., run in that
\* order on dets.
RECURSIVE RunThens(_, _, _, _, _, _, _)
RunThens(i, mp, fc, es, order, n, dets) ==
    IF n > Len(es) THEN dets
    ELSE RunThens(i, mp, fc, es, order, n + 1, EntryThen(i, mp, fc, es[order[n]], dets))

\* The orders in which n promises can settle.
Orders(n) == {o \in [1 .. n -> 1 .. n] : \A a, b \in 1 .. n : o[a] = o[b] => a = b}

\* What a request hands back: the array (context), the file with the array
\* stored on it (legacy).
Returned(i, fc, dets) ==
    IF i = "context" THEN dets ELSE [fc EXCEPT !.detailedCoverage = dets]

\* The detail list of a returned request.
DetailList == IF impl = "context" THEN result ELSE result.detailedCoverage

\* ------------------------------------- one report entry, a whole request

InitDetail ==
    /\ \E c \in Configs :
        /\ impl = c.impl
        /\ options = c.options
        /\ mapper = c.mapper
    /\ raw \in RawFiles
    /\ DetailIdle
    /\ PairIdle
    /\ FaultIdle
    /\ SumIdle
    /\ RangeIdle
    /\ ApplyIdle

\* context: applyJson for the one entry, mapFileUri unset.  legacy:
\* provideFileCoverage, mapFileUri not overridden.
AddCoverage ==
    /\ file = Absent
    /\ file' = IstanbulFileCoverage(CompiledUri, raw, CompiledUri, options)
    /\ UNCHANGED <<applyVars, pairVars, faultVars, impl, mapper, sumVars, rangeVars, inputVars,
                   pc, pending, thenRun, details, result>>

\* loadDetailedCoverage / resolveFileCoverage from the call to the return:
\* the callbacks run in the order in which the entries' promises settle.
LoadDetailedCoverage ==
    /\ file # Absent
    /\ pc = "idle"
    /\ \E order \in Orders(Len(Entries(file))) :
        /\ details' = RunThens(impl, mapper, file, Entries(file), order, 1, <<>>)
        /\ result' = Returned(impl, file, details')
        /\ file' = IF impl = "context" THEN file ELSE result'
    /\ thenRun' = {Entries(file)[k] : k \in DOMAIN Entries(file)}
    /\ pending' = {}
    /\ pc' = "returned"
    /\ UNCHANGED <<applyVars, pairVars, faultVars, impl, mapper, sumVars, rangeVars, inputVars>>

NextDetail == AddCoverage \/ LoadDetailedCoverage

SpecDetail == InitDetail /\ [][NextDetail]_vars

\* ---------------------------------------------- properties of a request

\* The Istanbul range of a report entry itself: the group's loc, the
\* statement's range, the function's loc.
OwnRange(e) ==
    CASE e[1] = "b" -> raw.branchMap[e[2]].loc
      [] e[1] = "s" -> raw.statementMap[e[2]]
      [] e[1] = "f" -> raw.fnMap[e[2]].loc

\* What the mapper answered for an Istanbul location of the file.
MapperAnswer(l) == mapLocation(impl, mapper, CompiledUri, l)

BothEndpointsAbsent(r) == MapperAnswer(r.start) = Absent /\ MapperAnswer(r.end) = Absent

\* The records of list D made of report entry e.
RecordsFrom(D, e) == {D[k] : k \in {j \in DOMAIN D : D[j].from = e}}

AllEntries == {<<"b", k>> : k \in DOMAIN raw.branchMap}
                  \cup {<<"s", k>> : k \in DOMAIN raw.statementMap}
                  \cup {<<"f", k>> : k \in DOMAIN raw.fnMap}

\* The three summary counts as the report alone determines them.
NonzeroCount(t) == TestCoverageCount(Cardinality({k \in DOMAIN t : t[k] # 0}), Len(t))

BranchCells == UNION {{<<k, j>> : j \in DOMAIN raw.b[k]} : k \in DOMAIN raw.b}

SummaryOfReport ==
    /\ file.statementCoverage = NonzeroCount(raw.s)
    /\ file.declarationCoverage = NonzeroCount(raw.f)
    /\ file.branchCoverage =
          TestCoverageCount(Cardinality({c \in BranchCells : raw.b[c[1]][c[2]] # 0}),
                            Cardinality(BranchCells))

\* C2: an entry for whose range the mapper answers absent on both endpoints is
\* not in the returned detail list, and the three summary counts are those of
\* the report, whatever the mapper does.
C2_UnmappedDroppedSummaryKept ==
    /\ file # Absent => SummaryOfReport
    /\ pc = "returned" =>
          \A e \in AllEntries :
              BothEndpointsAbsent(OwnRange(e)) => RecordsFrom(DetailList, e) = {}

\* A request has returned a list that lacks the statement, executed at least
\* once and unmapped on both endpoints, and holds another record.
C2_Witness ==
    /\ pc = "returned"
    /\ BothEndpointsAbsent(OwnRange(<<"s", 1>>))
    /\ raw.s[1] > 0
    /\ file.statementCoverage.covered = 1
    /\ Len(DetailList) > 0

\* The if-groups of the report with two outcomes, the second one implicit.
ImplicitElseGroups ==
    {k \in DOMAIN raw.branchMap :
        /\ raw.branchMap[k].type = "if"
        /\ Len(raw.branchMap[k].locations) = 2
        /\ "line" \notin DOMAIN raw.branchMap[k].locations[2].start}

\* C5 as stated, of src/index.ts: whenever such a group is emitted, its second
\* branch is labelled "else" and its range is empty and at the group's end,
\* the line made 0-based.
C5_ElseAtGroupEndAsStated ==
    (pc = "returned" /\ impl = "context") =>
        \A k \in ImplicitElseGroups : \A rec \in RecordsFrom(DetailList, <<"b", k>>) :
            LET end == raw.branchMap[k].loc.end
                at == Position(end.line - 1, end.column)
            IN  /\ rec.branches[2].label = "else"
                /\ rec.branches[2].location = Range(at, at)

\* C5 amended: whenever such a group is emitted, its second branch is labelled
\* "else" and its range is the range of the location the mapper answers for
\* the group's end (mapRange of the empty range at group.loc.end); with the
\* identity mapper, or none, that range is empty and lies at the position
\* mapLocation makes of group.loc.end.
C5_ElseIsMappedGroupEnd ==
    pc = "returned" =>
        \A k \in ImplicitElseGroups : \A rec \in RecordsFrom(DetailList, <<"b", k>>) :
            LET end == raw.branchMap[k].loc.end
                d == IF impl = "context" THEN 1 ELSE 0
                at == Position(end.line - d, end.column)
            IN  /\ rec.branches[2].label = "else"
                /\ MapperAnswer(end) # Absent
                /\ rec.branches[2].location = MapperAnswer(end).range
                /\ IsIdentity(mapper) => rec.branches[2].location = Range(at, at)

\* A group with an implicit else has been emitted under a mapper that answers
\* with ranges one character wide.
C5_Witness ==
    /\ pc = "returned"
    /\ mapper.configured
    /\ mapper.width = 1
    /\ \E k \in ImplicitElseGroups : RecordsFrom(DetailList, <<"b", k>>) # {}

\* The raw count a record's hit is made of.
RawCount(e) ==
    CASE e[1] = "b" -> Hits(raw.b[e[2]], 1, Len(raw.b[e[2]]))
      [] e[1] = "s" -> raw.s[e[2]]
      [] e[1] = "f" -> raw.f[e[2]]

\* A record without its hits.
Strip(rec) ==
    IF rec.kind = "statement"
    THEN [rec EXCEPT !.executed = Absent,
                     !.branches = [j \in DOMAIN rec.branches |->
                                      [rec.branches[j] EXCEPT !.executed = Absent]]]
    ELSE [rec EXCEPT !.executed = Absent]

\* C6: in src/index.ts, with booleanCounts every emitted hit is raw count > 0,
\* without it the raw count; the records emitted, their ranges and labels are
\* those the other mode emits, and the summary counts are those of the report
\* in both modes.
C6_CountModeOnlyHits ==
    impl = "context" =>
        /\ file # Absent => SummaryOfReport
        /\ pc = "returned" =>
            LET Hit(n) == IF options.booleanCounts THEN Bool(n > 0) ELSE Count(n)
                other == [file EXCEPT !.options.booleanCounts = ~options.booleanCounts]
            IN  /\ \A k \in DOMAIN DetailList :
                    LET rec == DetailList[k]
                    IN  /\ rec.executed = Hit(RawCount(rec.from))
                        /\ rec.from[1] = "b" =>
                              \A j \in DOMAIN rec.branches :
                                  rec.branches[j].executed = Hit(raw.b[rec.from[2]][j])
                /\ \A e \in AllEntries :
                      {Strip(rec) : rec \in RecordsFrom(DetailList, e)}
                          = {Strip(EntryThen(impl, mapper, other, e, <<>>)[n]) :
                                n \in DOMAIN EntryThen(impl, mapper, other, e, <<>>)}

\* A request in raw-count mode has returned a statement executed twice and a
\* branch group.
C6_Witness ==
    /\ pc = "returned"
    /\ impl = "context"
    /\ ~options.booleanCounts
    /\ raw.s[1] = 2
    /\ RecordsFrom(DetailList, <<"s", 1>>) # {}
    /\ RecordsFrom(DetailList, <<"b", 1>>) # {}

\* What mapRange is to answer for a range: the table of C3 on the mapper's
\* answers.
Resolved(r) ==
    LET start == MapperAnswer(r.start)
        end == MapperAnswer(r.end)
    IN  IF start # Absent /\ end # Absent THEN Range(start.range.start, end.range.end)
        ELSE IF start # Absent THEN start.range
        ELSE IF end # Absent THEN end.range
        ELSE Absent

\* The resolved range of outcome j of group k, real or synthesized.
ResolvedOutcome(k, j) ==
    LET group == raw.branchMap[k]
    IN  IF "line" \in DOMAIN group.locations[j].start
        THEN Resolved(group.locations[j])
        ELSE Resolved(IstanbulRange(group.loc.end, group.loc.end))

\* C9: a branch group whose own range or any of whose outcome ranges does not
\* resolve has no record in the returned list; every other group has one
\* record, with one branch per entry of group.locations, in the same order.
C9_BranchGroupsAllOrNothing ==
    pc = "returned" =>
        \A k \in DOMAIN raw.branchMap :
            LET group == raw.branchMap[k]
                recs == RecordsFrom(DetailList, <<"b", k>>)
            IN  IF \/ Resolved(group.loc) = Absent
                   \/ \E j \in DOMAIN group.locations : ResolvedOutcome(k, j) = Absent
                THEN recs = {}
                ELSE /\ Cardinality(recs) = 1
                     /\ Cardinality({n \in DOMAIN DetailList :
                                        DetailList[n].from = <<"b", k>>}) = 1
                     /\ \A rec \in recs :
                          /\ Len(rec.branches) = Len(group.locations)
                          /\ \A j \in DOMAIN group.locations :
                                rec.branches[j].location = ResolvedOutcome(k, j)

\* A request has returned without a record for a group whose own range and
\* first outcome resolve and whose second outcome does not.
C9_Witness ==
    /\ pc = "returned"
    /\ Len(raw.branchMap[1].locations) = 2
    /\ Resolved(raw.branchMap[1].loc) # Absent
    /\ ResolvedOutcome(1, 1) # Absent
    /\ ResolvedOutcome(1, 2) = Absent
    /\ RecordsFrom(DetailList, <<"b", 1>>) = {}
    /\ Len(DetailList) > 0

\* --------------------------------- one report entry, a request step by step

\* The mapRange calls of an entry, numbered from 0: one for a statement or a
\* function, 1 + locations.length for a branch group (0 is the group's loc).
RangesOf(fc, e) ==
    IF e[1] = "b" THEN 0 .. Len(fc.original.branchMap[e[2]].locations) ELSE {0}

\* The mapper calls of an entry: mapRange calls mapLocation for the start and
\* for the end of its range before it awaits either.
CallsOf(fc, e) == {<<e, r, side>> : r \in RangesOf(fc, e), side \in {"start", "end"}}

AllCalls(fc) == UNION {CallsOf(fc, Entries(fc)[k]) : k \in DOMAIN Entries(fc)}

\* The Istanbul range of the r-th mapRange call of entry e: branch.loc, an
\* outcome or the empty range at the end of the group, a statement, stmt.loc.
CallRange(fc, e, r) ==
    CASE e[1] = "b" ->
            LET branch == fc.original.branchMap[e[2]]
            IN  IF r = 0 THEN branch.loc
                ELSE IF "line" \in DOMAIN branch.locations[r].start
                     THEN branch.locations[r]
                     ELSE IstanbulRange(branch.loc.end, branch.loc.end)
      [] e[1] = "s" -> fc.original.statementMap[e[2]]
      [] e[1] = "f" -> fc.original.fnMap[e[2]].loc

\* A mutation of the loops: mapRange is given the uri the file is reported
\* under.
MapperArgsReportedUri(i, fc, c) ==
    LET location == IF c[3] = "start" THEN CallRange(fc, c[1], c[2]).start
                    ELSE CallRange(fc, c[1], c[2]).end
    IN  [uri |-> fc.uri,
         position |-> IF i = "context"
                      THEN Position(location.line - 1, location.column)
                      ELSE Position(location.line, location.column)]

\* What the mapper is invoked with for call c: the uri the loops hand to
\* mapRange, file.compiledUri, and the position mapLocation makes of the
\* endpoint.
MapperArgs(i, fc, c) ==
    LET location == IF c[3] = "start" THEN CallRange(fc, c[1], c[2]).start
                    ELSE CallRange(fc, c[1], c[2]).end
    IN  [uri |-> fc.compiledUri,
         position |-> IF i = "context"
                      THEN Position(location.line - 1, location.column)
                      ELSE Position(location.line, location.column)]

\* A mutation of mapLocation: the mapper is asked a second time.
MapLocationCallsRetried(c) == <<c, c>>

\* mapLocation invokes the mapper once for its location.
MapLocationCalls(c) == <<c>>

\* A mutation of mapRange: the end is mapped once the start has been awaited.
MapRangeCallsSequential(e, r) == MapLocationCalls(<<e, r, "start">>)

\* mapRange calls mapLocation for the start, then for the end, and awaits
\* the two together.
MapRangeCalls(e, r) ==
    MapLocationCalls(<<e, r, "start">>) \o MapLocationCalls(<<e, r, "end">>)

\* The mapper calls of the mapRange calls r, r + 1, ..., n of entry e.
RECURSIVE EntryCalls(_, _, _)
EntryCalls(e, r, n) ==
    IF r > n THEN <<>> ELSE MapRangeCalls(e, r) \o EntryCalls(e, r + 1, n)

\* The mapper calls the three loops make for the entries es[k], es[k+1], ...
RECURSIVE LoopCalls(_, _, _)
LoopCalls(fc, es, k) ==
    IF k > Len(es) THEN <<>>
    ELSE EntryCalls(es[k], 0, IF es[k][1] = "b"
                              THEN Len(fc.original.branchMap[es[k][2]].locations)
                              ELSE 0)
            \o LoopCalls(fc, es, k + 1)

\* The invocations of the mapper made by the synchronous part of a request,
\* in order, each with its arguments.
IssuedCalls(i, fc) ==
    LET cs == LoopCalls(fc, Entries(fc), 1)
    IN  [k \in DOMAIN cs |->
            [call |-> cs[k],
             uri |-> MapperArgs(i, fc, cs[k]).uri,
             position |-> MapperArgs(i, fc, cs[k]).position]]

\* What becomes of the promise of call c: "resolve", "reject" or "hang".
Outcome(i, fc, c) ==
    IF /\ fault.kind # "none"
       /\ MapperArgs(i, fc, c).uri.path = fault.path
       /\ MapperArgs(i, fc, c).position.line = fault.line
    THEN fault.kind
    ELSE "resolve"

\* A mutation of the final await: the first settled entry is enough.
AnySettled(fc, done) == done # {}

\* A mutation of the final await: an entry whose promise rejected counts as
\* settled (Promise.allSettled).
AllSettledOrFailed(fc, done) ==
    \A k \in DOMAIN Entries(fc) :
        Entries(fc)[k] \in done \/ CallsOf(fc, Entries(fc)[k]) \cap rejected # {}

\* await Promise.all(todo): every entry's promise has settled, that is, its
\* callback has run.
AllSettled(fc, done) == \A k \in DOMAIN Entries(fc) : Entries(fc)[k] \in done

\* The reports and configurations of the step-by-step runs: an if-group with
\* an explicit or an implicit else, fixed hit counts, a configured mapper that
\* answers with positions.
StepRawFiles ==
    {FileCoverageData(<<"out", 1>>, "if", locations, <<0, MaxCount>>, 1, 0) :
        locations \in {<<FirstOutcome, SecondOutcome>>, <<FirstOutcome, ImplicitOutcome>>}}

StepConfigs == {c \in Configs : c.mapper.configured /\ c.mapper.width = 0}

Init ==
    /\ \E c \in StepConfigs :
        /\ impl = c.impl
        /\ options = c.options
        /\ mapper = c.mapper
    /\ raw \in StepRawFiles
    /\ DetailIdle
    /\ PairIdle
    /\ FaultIdle
    /\ SumIdle
    /\ RangeIdle
    /\ ApplyIdle

\* The synchronous part of loadDetailedCoverage / resolveFileCoverage: the
\* three loops issue every mapper call of the file, then the function awaits.
Request ==
    /\ file # Absent
    /\ pc = "idle"
    /\ pc' = "awaiting"
    /\ details' = <<>>
    /\ pending' = AllCalls(file)
    /\ callLog' = callLog \o IssuedCalls(impl, file)
    /\ thenRun' = {}
    /\ UNCHANGED <<applyVars, pairVars, fault, rejected, impl, mapper, sumVars, rangeVars,
                   inputVars, file, result>>

\* The promise of one mapper call resolves.
Complete(c) ==
    /\ pc \in {"awaiting", "rejected"}
    /\ c \in pending
    /\ Outcome(impl, file, c) = "resolve"
    /\ pending' = pending \ {c}
    /\ UNCHANGED <<applyVars, pairVars, faultVars, impl, mapper, sumVars, rangeVars, inputVars,
                   file, pc, thenRun, details, result>>

\* The then-callback of an entry runs: all its mapper calls have resolved.
\* The callbacks go on running after the request has rejected.
Then(e) ==
    /\ pc \in {"awaiting", "rejected"}
    /\ e \notin thenRun
    /\ CallsOf(file, e) \cap (pending \cup rejected) = {}
    /\ details' = EntryThen(impl, mapper, file, e, details)
    /\ thenRun' = thenRun \cup {e}
    /\ UNCHANGED <<applyVars, pairVars, faultVars, impl, mapper, sumVars, rangeVars, inputVars,
                   file, pc, pending, result>>

\* await Promise.all(todo) is over: return details (context), or store them
\* on the file and return the file (legacy).
Return ==
    /\ pc = "awaiting"
    /\ AllSettled(file, thenRun)
    /\ pc' = "returned"
    /\ result' = Returned(impl, file, details)
    /\ file' = IF impl = "context" THEN file ELSE result'
    /\ UNCHANGED <<applyVars, pairVars, faultVars, impl, mapper, sumVars, rangeVars, inputVars,
                   pending, thenRun, details>>

Next ==
    \/ AddCoverage
    \/ Request
    \/ \E c \in pending : Complete(c)
    \/ \E e \in AllEntries : Then(e)
    \/ Return

Spec == Init /\ [][Next]_vars

\* The list the three loops would give if every callback ran in the order of
\* the loops.
InLoopOrder ==
    RunThens(impl, mapper, file, Entries(file),
             [k \in DOMAIN Entries(file) |-> k], 1, <<>>)

\* C10 as stated: the returned list is in the order of the loops, whatever the
\* order in which the mapper calls complete.
C10_LoopOrderAsStated == pc = "returned" => DetailList = InLoopOrder

\* C10 amended: whatever the order in which the mapper calls complete, the
\* returned list holds the same records as the list in loop order, each as
\* often (once); only their order may differ.
C10_SameRecordsAnyOrder ==
    pc = "returned" =>
        /\ Len(DetailList) = Len(InLoopOrder)
        /\ \A e \in AllEntries :
              SelectSeq(DetailList, LAMBDA rec : rec.from = e)
                  = SelectSeq(InLoopOrder, LAMBDA rec : rec.from = e)

\* A request has returned all three records in another order than the loops'.
C10_Witness ==
    /\ pc = "returned"
    /\ Len(DetailList) = 3
    /\ DetailList # InLoopOrder

\* ------------------------------------------------------------------ apply

\* Bounds of the apply runs: the report has at most MaxFiles entries, the run
\* fires at most MaxDispose disposal notifications.
MaxFiles == 2
MaxDispose == 2

CoverageDir == "/tmp/coverage"

FINAL_COVERAGE_FILE_NAME == "coverage-final.json"

\* new IstanbulMissingCoverageError(dir, err): an Error whose message names
\* the file, the directory and the error.
IstanbulMissingCoverageError(dir, err) ==
    [class |-> "IstanbulMissingCoverageError",
     message |-> [file |-> FINAL_COVERAGE_FILE_NAME, dir |-> dir, err |-> err]]

\* What fs.readFile rejects with.
ReadError(d) ==
    [class |-> "Error", code |-> IF d.state = "missing" THEN "ENOENT" ELSE "EACCES"]

\* What JSON.parse throws.
SyntaxError == [class |-> "SyntaxError"]

\* The k-th entry of a report.
ReportEntry(k) ==
    FileCoverageData(<<"out", k>>, "if", <<FirstOutcome, ImplicitOutcome>>,
                     <<0, MaxCount>>, 1, 0)

Reports == {[k \in 1 .. n |-> ReportEntry(k)] : n \in 0 .. MaxFiles}

\* The file at coverageDir/coverage-final.json: none, one that cannot be
\* read, one that is not JSON, or a report.
Disks ==
    {[state |-> st, entries |-> <<>>] : st \in {"missing", "unreadable", "malformed"}}
        \cup {[state |-> "report", entries |-> r] : r \in Reports}

\* The option objects a caller may pass: either option set or not.
OptionObjects ==
    UNION {[keys -> BOOLEAN] : keys \in SUBSET {"removeCoverageDataAtEndOfRun"}}

\* Whether mapFileUri has a uri for compiledUri: the remapping mapper has one
\* for every file, the partial one for the first file of the report only; an
\* absent mapper and one that answers nothing have none.
MapFileUriAnswers(fm, compiledUri) ==
    fm = "remap" \/ (fm = "partial" /\ compiledUri.path[2] = 1)

\* What (await options.mapFileUri?.(compiledUri)) || compiledUri gives.
OriginalUri(fm, compiledUri) ==
    IF MapFileUriAnswers(fm, compiledUri)
    THEN UriFile(<<"src", compiledUri.path[2]>>)
    ELSE compiledUri

\* Whether options.mapFileUri(compiledUri) rejects: the rejecting mapper
\* rejects for the first entry of the report and answers nothing for the rest.
MapFileUriRejects(fm, compiledUri) == fm = "reject" /\ compiledUri.path[2] = 1

\* What a rejecting mapFileUri rejects with.
MapFileUriError == [class |-> "Error", code |-> "MAPFILEURI"]

\* A mutation of the listener: it does not unregister itself.
ListenersAfterFiringKept(ls) == ls

\* l.dispose() in the listener: the listener is no longer registered.
ListenersAfterFiring(ls) == ls \ {"rm"}

\* A mutation of the rejection handler of fs.rm: the error is passed on.
RmRejectedRethrown(err) == {err}

\* fs.rm(...).catch(() => { /* ignored */ }): the errors that get past it.
RmRejected(err) == {}

\* After the constructor: defaultOptions is the initializer overwritten by
\* the constructor's argument.
InitApply ==
    /\ impl = "context"
    /\ mapper = NoMapper
    /\ disk \in Disks
    /\ dirExists = TRUE
    /\ defaultOptions \in {MergeOptions(BaseOptions, o) : o \in OptionObjects}
    /\ fileMapper \in {"unset", "remap", "absent", "reject"}
    /\ applyPc = "idle"
    /\ applyOpts = NoOptions
    /\ thrown = Absent
    /\ listeners = {}
    /\ pendingUris = {}
    /\ coverage = <<>>
    /\ disposeCount = 0
    /\ rm = "none"
    /\ rmCalls = 0
    /\ escaped = {}
    /\ NoInput
    /\ DetailIdle
    /\ PairIdle
    /\ FaultIdle
    /\ SumIdle
    /\ RangeIdle

\* apply(run, coverageDir, opts) up to its await of fs.readFile.
ApplyCall ==
    /\ applyPc = "idle"
    /\ \E o \in OptionObjects : applyOpts' = o
    /\ applyPc' = "reading"
    /\ UNCHANGED <<faultVars, pairVars, impl, mapper, sumVars, rangeVars, inputVars, detailVars,
                   disk, dirExists, defaultOptions, fileMapper, thrown, listeners,
                   pendingUris, coverage, disposeCount, rm, rmCalls, escaped>>

\* fs.readFile rejects: the catch block throws the named error.
ReadFails ==
    /\ applyPc = "reading"
    /\ disk.state \in {"missing", "unreadable"}
    /\ thrown' = IstanbulMissingCoverageError(CoverageDir, ReadError(disk))
    /\ applyPc' = "threw"
    /\ UNCHANGED <<faultVars, pairVars, impl, mapper, sumVars, rangeVars, inputVars, detailVars,
                   disk, dirExists, defaultOptions, fileMapper, applyOpts, listeners,
                   pendingUris, coverage, disposeCount, rm, rmCalls, escaped>>

\* fs.readFile resolves and JSON.parse, inside the same try block, throws:
\* the catch block throws the named error.
ParseFails ==
    /\ applyPc = "reading"
    /\ disk.state = "malformed"
    /\ thrown' = IstanbulMissingCoverageError(CoverageDir, SyntaxError)
    /\ applyPc' = "threw"
    /\ UNCHANGED <<faultVars, pairVars, impl, mapper, sumVars, rangeVars, inputVars, detailVars,
                   disk, dirExists, defaultOptions, fileMapper, applyOpts, listeners,
                   pendingUris, coverage, disposeCount, rm, rmCalls, escaped>>

\* fs.readFile resolves and JSON.parse returns the report: the options are
\* merged, the listener is registered if asked for, and applyJson calls
\* mapFileUri for every entry.
ReadSucceeds ==
    /\ applyPc = "reading"
    /\ disk.state = "report"
    /\ LET merged == MergeOptions(defaultOptions, applyOpts)
       IN  /\ listeners' = IF merged.removeCoverageDataAtEndOfRun
                           THEN listeners \cup {"rm"} ELSE listeners
           /\ options' = MergeOptions(defaultOptions, merged)
    /\ pendingUris' = DOMAIN disk.entries
    /\ applyPc' = "registering"
    /\ UNCHANGED <<faultVars, pairVars, impl, mapper, sumVars, rangeVars, raw, detailVars,
                   disk, dirExists, defaultOptions, fileMapper, applyOpts, thrown,
                   coverage, disposeCount, rm, rmCalls, escaped>>

\* The mapFileUri call of entry k settles and the entry's file is added to
\* the run; without a mapFileUri the entries continue in the order of the
\* report.
AddFile(k) ==
    /\ applyPc \in {"registering", "rejected"}
    /\ k \in pendingUris
    /\ fileMapper = "unset" => \A j \in pendingUris : k <= j
    /\ ~MapFileUriRejects(fileMapper, UriFile(disk.entries[k].path))
    /\ pendingUris' = pendingUris \ {k}
    /\ LET compiledUri == UriFile(disk.entries[k].path)
       IN  coverage' = Append(coverage,
                              IstanbulFileCoverage(OriginalUri(fileMapper, compiledUri),
                                                   disk.entries[k], compiledUri, options))
    /\ UNCHANGED <<faultVars, pairVars, impl, mapper, sumVars, rangeVars, inputVars, detailVars,
                   disk, dirExists, defaultOptions, fileMapper, applyPc, applyOpts, thrown,
                   listeners, disposeCount, rm, rmCalls, escaped>>

\* The mapFileUri call of entry k rejects: the entry's callback ends without
\* adding a file, the Promise.all of applyJson rejects with the first such
\* error and apply, which returns that promise, rejects with it.
MapFileUriFails(k) ==
    /\ applyPc \in {"registering", "rejected"}
    /\ k \in pendingUris
    /\ MapFileUriRejects(fileMapper, UriFile(disk.entries[k].path))
    /\ pendingUris' = pendingUris \ {k}
    /\ applyPc' = "rejected"
    /\ thrown' = IF applyPc = "registering" THEN MapFileUriError ELSE thrown
    /\ UNCHANGED <<faultVars, pairVars, impl, mapper, sumVars, rangeVars, inputVars, detailVars,
                   disk, dirExists, defaultOptions, fileMapper, applyOpts, listeners,
                   coverage, disposeCount, rm, rmCalls, escaped>>

\* The Promise.all of applyJson resolves and apply returns.
ApplyReturns ==
    /\ applyPc = "registering"
    /\ pendingUris = {}
    /\ applyPc' = "returned"
    /\ UNCHANGED <<faultVars, pairVars, impl, mapper, sumVars, rangeVars, inputVars, detailVars,
                   disk, dirExists, defaultOptions, fileMapper, applyOpts, thrown,
                   listeners, pendingUris, coverage, disposeCount, rm, rmCalls, escaped>>

\* The run fires its disposal notification: the listener, if registered,
\* unregisters itself and issues fs.rm.
Dispose ==
    /\ disposeCount < MaxDispose
    /\ disposeCount' = disposeCount + 1
    /\ IF "rm" \in listeners
       THEN /\ listeners' = ListenersAfterFiring(listeners)
            /\ rm' = "pending"
            /\ rmCalls' = rmCalls + 1
       ELSE UNCHANGED <<listeners, rm, rmCalls>>
    /\ UNCHANGED <<faultVars, pairVars, impl, mapper, sumVars, rangeVars, inputVars, detailVars,
                   disk, dirExists, defaultOptions, fileMapper, applyPc, applyOpts, thrown,
                   pendingUris, coverage, escaped>>

\* fs.rm resolves: the directory is gone.
RmSucceeds ==
    /\ rm = "pending"
    /\ rm' = "done"
    /\ dirExists' = FALSE
    /\ UNCHANGED <<faultVars, pairVars, impl, mapper, sumVars, rangeVars, inputVars, detailVars,
                   disk, defaultOptions, fileMapper, applyPc, applyOpts, thrown,
                   listeners, pendingUris, coverage, disposeCount, rmCalls, escaped>>

\* fs.rm rejects.
RmFails ==
    /\ rm = "pending"
    /\ rm' = "failed"
    /\ escaped' = escaped \cup RmRejected([class |-> "Error", code |-> "EPERM"])
    /\ UNCHANGED <<faultVars, pairVars, impl, mapper, sumVars, rangeVars, inputVars, detailVars,
                   disk, dirExists, defaultOptions, fileMapper, applyPc, applyOpts, thrown,
                   listeners, pendingUris, coverage, disposeCount, rmCalls>>

NextApply ==
    \/ ApplyCall
    \/ ReadFails
    \/ ParseFails
    \/ ReadSucceeds
    \/ \E k \in pendingUris : AddFile(k)
    \/ \E k \in pendingUris : MapFileUriFails(k)
    \/ ApplyReturns
    \/ Dispose
    \/ RmSucceeds
    \/ RmFails

SpecApply == InitApply /\ [][NextApply]_vars

\* C7 as stated: a missing or unreadable report makes apply throw the named
\* error with the directory and the cause; a JSON syntax error is thrown as
\* it is, not wrapped; either way nothing is added to the run.
C7_ParseErrorUnwrapped ==
    applyPc = "threw" =>
        /\ disk.state \in {"missing", "unreadable"} =>
              thrown = IstanbulMissingCoverageError(CoverageDir, ReadError(disk))
        /\ disk.state = "malformed" => thrown = SyntaxError
        /\ coverage = <<>>

\* What the code does: every failure of the read or of the parse is thrown as
\* the named error, and nothing is added to the run.
ApplyFailureAlwaysWrapped ==
    applyPc = "threw" =>
        /\ thrown.class = "IstanbulMissingCoverageError"
        /\ thrown.message.dir = CoverageDir
        /\ thrown.message.err = IF disk.state = "malformed" THEN SyntaxError ELSE ReadError(disk)
        /\ coverage = <<>>
        /\ listeners = {}

\* The option as the caller set it: per call, else at construction, else true.
RemoveAtEnd ==
    IF "removeCoverageDataAtEndOfRun" \in DOMAIN applyOpts
    THEN applyOpts.removeCoverageDataAtEndOfRun
    ELSE defaultOptions.removeCoverageDataAtEndOfRun

\* C8: with the option false no removal is ever issued and the directory
\* stays; with it true a disposal notification fired once the report has been
\* read, hence any fired after apply succeeded, leaves the removal issued;
\* removal is issued only after a disposal notification; a failed removal
\* reaches neither apply's caller nor the code that fired the disposal.
C8_RemovalAtDisposal ==
    /\ [](applyPc # "idle" =>
            /\ ~RemoveAtEnd => (rm = "none" /\ dirExists)
            /\ rm # "none" => disposeCount > 0
            /\ escaped = {}
            /\ applyPc \in {"registering", "returned"} => thrown = Absent)
    /\ [][(applyPc \in {"registering", "returned"} /\ RemoveAtEnd
             /\ disposeCount' = disposeCount + 1) => rm' # "none"]_vars

\* apply has succeeded with the option true, the run was disposed afterwards
\* and the removal failed.
C8_Witness ==
    /\ applyPc = "returned"
    /\ RemoveAtEnd
    /\ rm = "failed"
    /\ dirExists
    /\ Len(coverage) = 2

\* The read of the report has succeeded in this call of apply.
ReadSucceeded == applyPc \in {"registering", "returned", "rejected"}

\* C18: after a failed read no listener is registered and the directory is
\* never removed; the listener is registered only by a successful read with
\* removal enabled, and then before any file is added to the run; it is
\* unregistered only by firing, so it stays when applyJson fails; it
\* unregisters itself when it first fires, and fs.rm is called at most once
\* however many disposal notifications follow.
C18_RemovalTiedToSuccessfulRead ==
    /\ [](applyPc = "threw" =>
            listeners = {} /\ rm = "none" /\ rmCalls = 0 /\ dirExists)
    /\ [](rmCalls <= 1)
    /\ []((ReadSucceeded /\ RemoveAtEnd) => ("rm" \in listeners \/ rmCalls = 1))
    /\ []("rm" \in listeners => (ReadSucceeded /\ RemoveAtEnd /\ rmCalls = 0))
    /\ [][("rm" \notin listeners /\ "rm" \in listeners') =>
            (coverage = <<>> /\ coverage' = <<>> /\ applyPc = "reading")]_vars
    /\ [][("rm" \in listeners /\ "rm" \notin listeners') =>
            (disposeCount' = disposeCount + 1 /\ rmCalls' = 1)]_vars
    /\ [][("rm" \in listeners /\ disposeCount' = disposeCount + 1) =>
            ("rm" \notin listeners' /\ rmCalls' = 1)]_vars
    /\ [][("rm" \notin listeners /\ disposeCount' = disposeCount + 1) =>
            rmCalls' = rmCalls]_vars

\* The read succeeded with removal enabled, applyJson failed, and the run
\* fired its disposal notification twice: one removal was issued.
C18_Witness ==
    /\ applyPc = "rejected"
    /\ RemoveAtEnd
    /\ coverage # <<>>
    /\ disposeCount = MaxDispose
    /\ rmCalls = 1
    /\ listeners = {}

\* ------------------------- a request whose mapper may reject or never settle

\* The mapper of a run: all its promises settle with a location or with
\* undefined, or the ones for one line of the file reject, or never settle.
Faults ==
    {NoFault} \cup {[kind |-> kd, path |-> CompiledUri.path, line |-> l] :
                        kd \in {"hang", "reject"}, l \in 0 .. MaxLine}

\* A configured mapper that answers undefined for at most one line.
FaultConfigs == {c \in StepConfigs : Cardinality(c.mapper.dead) <= 1}

\* What a rejected promise of the mapper carries.
MapperError == [class |-> "Error", thrownBy |-> "mapLocation"]

InitFault ==
    /\ \E c \in FaultConfigs :
        /\ impl = c.impl
        /\ options = c.options
        /\ mapper = c.mapper
    /\ raw \in StepRawFiles
    /\ fault \in Faults
    /\ rejected = {}
    /\ callLog = <<>>
    /\ DetailIdle
    /\ PairIdle
    /\ SumIdle
    /\ RangeIdle
    /\ ApplyIdle

\* The promise of one mapper call rejects: so do the mapLocation, the
\* mapRange and the entry's promise built on it, and the entry's callback
\* will not run.
Fail(c) ==
    /\ pc \in {"awaiting", "rejected"}
    /\ c \in pending
    /\ Outcome(impl, file, c) = "reject"
    /\ pending' = pending \ {c}
    /\ rejected' = rejected \cup {c}
    /\ UNCHANGED <<applyVars, pairVars, fault, callLog, impl, mapper, sumVars, rangeVars, inputVars,
                   file, pc, thenRun, details, result>>

\* await Promise.all(todo) throws as soon as one entry's promise has
\* rejected: the request rejects with the mapper's error.
Reject ==
    /\ pc = "awaiting"
    /\ rejected # {}
    /\ pc' = "rejected"
    /\ result' = [rejectedWith |-> MapperError]
    /\ UNCHANGED <<applyVars, pairVars, faultVars, impl, mapper, sumVars, rangeVars, inputVars,
                   file, pending, thenRun, details>>

NextFault ==
    \/ AddCoverage
    \/ Request
    \/ \E c \in pending : Complete(c)
    \/ \E c \in pending : Fail(c)
    \/ \E e \in AllEntries : Then(e)
    \/ Return
    \/ Reject

SpecFault == InitFault /\ [][NextFault]_vars

\* Every range the request maps for entry e resolves.
EntryResolves(e) ==
    \A r \in RangesOf(file, e) : Resolved(CallRange(file, e, r)) # Absent

\* The number of records of the list D made of entry e.
CountFrom(D, e) == Cardinality({n \in DOMAIN D : D[n].from = e})

\* C11 as stated: no failure of a mapper call, a rejection included, makes the
\* request end otherwise than by returning its list; the list is returned
\* only after every mapper call has completed and holds a record of every
\* entry whose ranges resolve.
C11_FailureIsolatedAsStated ==
    /\ pc # "rejected"
    /\ pc = "returned" =>
          /\ pending = {}
          /\ \A e \in AllEntries : EntryResolves(e) => CountFrom(DetailList, e) = 1

\* C11 amended: a request returns only after every mapper call it issued has
\* resolved, and then its list holds one record of every entry whose ranges
\* resolve and none of the others, so that an undefined answer for one entry
\* takes nothing from the others; a rejected mapper call makes the request
\* reject with that error, with no list; nothing is appended to a list once it
\* has been returned.
C11_ReturnsAfterAllCallsOrRejects ==
    /\ [](pc = "returned" =>
            /\ pending = {}
            /\ rejected = {}
            /\ {callLog[k].call : k \in DOMAIN callLog} = AllCalls(file)
            /\ \A e \in AllEntries :
                  CountFrom(DetailList, e) = IF EntryResolves(e) THEN 1 ELSE 0)
    /\ [](pc = "rejected" => rejected # {} /\ result = [rejectedWith |-> MapperError])
    /\ [][pc = "returned" => (details' = details /\ result' = result /\ file' = file)]_vars

\* A request has returned a list that lacks the statement, whose range does
\* not resolve, and holds the records of the group and of the function.
C11_Witness ==
    /\ pc = "returned"
    /\ ~EntryResolves(<<"s", 1>>)
    /\ CountFrom(DetailList, <<"s", 1>>) = 0
    /\ CountFrom(DetailList, <<"b", 1>>) = 1
    /\ CountFrom(DetailList, <<"f", 1>>) = 1

\* The number of times the mapper has been invoked for call c.
Invocations(c) == Cardinality({k \in DOMAIN callLog : callLog[k].call = c})

\* What the mapper answers to call c.
AnswerOf(c) ==
    MapperCall(mapper, MapperArgs(impl, file, c).uri, MapperArgs(impl, file, c).position)

\* C12: from the start of a request on, the mapper has been invoked exactly
\* once for each endpoint of each range of the file and is not invoked again,
\* whatever it answered; with a mapper that only answers locations or
\* undefined the request never rejects; and a returned list lacks the record
\* of an entry only if the mapper answered undefined to a call of that entry.
C12_AbsentIsSoftAndNotRetried ==
    /\ [](pc # "idle" => \A c \in AllCalls(file) : Invocations(c) = 1)
    /\ [][pc # "idle" => callLog' = callLog]_vars
    /\ [](fault = NoFault => pc # "rejected" /\ rejected = {})
    /\ [](pc = "returned" =>
            \A e \in AllEntries :
                IF \E c \in CallsOf(file, e) : AnswerOf(c) = Absent
                THEN CountFrom(DetailList, e) <= 1
                ELSE CountFrom(DetailList, e) = 1)

\* A request has returned after the mapper answered undefined to a call of
\* the statement and the record of the statement is not in the list.
C12_Witness ==
    /\ pc = "returned"
    /\ fault = NoFault
    /\ \E c \in CallsOf(file, <<"s", 1>>) : AnswerOf(c) = Absent
    /\ CountFrom(DetailList, <<"s", 1>>) = 0
    /\ \A c \in AllCalls(file) : Invocations(c) = 1
    /\ Len(DetailList) > 0

\* The place of the first invocation for call c in the log, 0 if none.
IssuedAt(c) ==
    IF Invocations(c) = 0 THEN 0
    ELSE CHOOSE k \in DOMAIN callLog :
            /\ callLog[k].call = c
            /\ \A j \in DOMAIN callLog : callLog[j].call = c => k <= j

\* The call for the other endpoint of the range of call c.
EndCall(c) == <<c[1], c[2], "end">>

\* C13: whenever the mapper call for the start of a range has completed, the
\* call for its end has been issued, right after the one for the start; once
\* the request awaits, every mapper call of every entry of the file has been
\* issued; and the mapper is invoked only by the step that starts the request,
\* before anything has been awaited.
C13_EndpointsIssuedTogether ==
    /\ [](pc # "idle" =>
            \A c \in AllCalls(file) :
                (c[3] = "start" /\ c \notin pending) =>
                    /\ IssuedAt(c) > 0
                    /\ IssuedAt(EndCall(c)) = IssuedAt(c) + 1)
    /\ [](pc = "awaiting" =>
            \A c \in AllCalls(file) : IssuedAt(c) > 0)
    /\ [][callLog' # callLog =>
            (pc = "idle" /\ pc' = "awaiting" /\ pending = {} /\ rejected = {}
               /\ {callLog'[k].call : k \in DOMAIN callLog'} = AllCalls(file))]_vars

\* The call for the start of the statement's range has completed and the call
\* for its end, issued with it, has not.
C13_Witness ==
    /\ pc = "awaiting"
    /\ <<<<"s", 1>>, 0, "start">> \notin pending
    /\ <<<<"s", 1>>, 0, "end">> \in pending
    /\ IssuedAt(<<<<"s", 1>>, 0, "end">>) = IssuedAt(<<<<"s", 1>>, 0, "start">>) + 1

\* ------------------------------------------ several files, several requests

\* The requests of a run are numbered 1 .. MaxRequests.
MaxRequests == 2

\* A report entry with one statement and one function.
StatementsEntry(path) ==
    [path |-> path,
     statementMap |-> <<StatementLoc>>,
     s |-> <<1>>,
     branchMap |-> <<>>,
     b |-> <<>>,
     fnMap |-> <<[name |-> "f", loc |-> FunctionLoc]>>,
     f |-> <<0>>]

\* A report entry with one if-group whose else is implicit.
BranchesEntry(path) ==
    [path |-> path,
     statementMap |-> <<>>,
     s |-> <<>>,
     branchMap |-> <<[loc |-> GroupLoc, type |-> "if",
                      locations |-> <<FirstOutcome, ImplicitOutcome>>]>>,
     b |-> <<<<0, MaxCount>>>>,
     fnMap |-> <<>>,
     f |-> <<>>]

\* The report of the runs with several requests.
PairReport == <<StatementsEntry(<<"out", 1>>), BranchesEntry(<<"out", 2>>)>>

\* All the mapper's promises resolve, or the ones for one line of one file
\* never settle.
PairFaults ==
    {NoFault} \cup {[kind |-> "hang", path |-> PairReport[k].path, line |-> l] :
                        k \in DOMAIN PairReport, l \in 1 .. 2}

\* A request that has not been made.
IdleRequest ==
    [pc |-> "idle", file |-> 0, pending |-> {}, ran |-> <<>>, details |-> <<>>,
     result |-> NotCalled]

InitPair ==
    /\ impl \in Impls
    /\ options = IF impl = "context" THEN BaseOptions ELSE Absent
    /\ raw = Absent
    /\ mapper = [configured |-> TRUE, dead |-> {}, width |-> 0]
    /\ files = PairReport
    /\ reqs = [r \in 1 .. MaxRequests |-> IdleRequest]
    /\ fault \in PairFaults
    /\ rejected = {}
    /\ callLog = <<>>
    /\ fileMapper \in {"unset", "remap", "absent", "partial"}
    /\ disk = [state |-> "missing", entries |-> <<>>]
    /\ dirExists = TRUE
    /\ defaultOptions = BaseOptions
    /\ applyPc = "idle"
    /\ applyOpts = NoOptions
    /\ thrown = Absent
    /\ listeners = {}
    /\ pendingUris = {}
    /\ coverage = <<>>
    /\ disposeCount = 0
    /\ rm = "none"
    /\ rmCalls = 0
    /\ escaped = {}
    /\ DetailIdle
    /\ SumIdle
    /\ RangeIdle

\* context: applyJson(run, files, options) from the call to the return, the
\* files added to the run in the order in which the mapFileUri calls settle
\* (the order of the report without a mapFileUri).  legacy:
\* provideFileCoverage, which returns the files in the order of the report.
RegisterFiles ==
    /\ coverage = <<>>
    /\ \E order \in Orders(Len(files)) :
        /\ (impl = "legacy" \/ fileMapper = "unset") => \A k \in DOMAIN files : order[k] = k
        /\ coverage' =
             [n \in DOMAIN files |->
                LET entry == files[order[n]]
                    compiledUri == UriFile(entry.path)
                IN  IstanbulFileCoverage(OriginalUri(fileMapper, compiledUri), entry,
                                         compiledUri, options)]
    /\ UNCHANGED <<faultVars, pairVars, impl, mapper, sumVars, rangeVars, inputVars,
                   detailVars, disk, dirExists, defaultOptions, fileMapper, applyPc,
                   applyOpts, thrown, listeners, pendingUris, disposeCount, rm, rmCalls, escaped>>

\* The file request r is about.
FileOf(r) == coverage[reqs[r].file]

\* The entries whose callback has run for request r.
RanSet(r) == {reqs[r].ran[n] : n \in DOMAIN reqs[r].ran}

\* A mutation: details is one array shared by all requests.
DetailsShared(rs, r) == rs[1].details

\* const details = []: the array the callbacks of request r push to is the
\* request's own.
DetailsOf(rs, r) == rs[r].details

\* A mutation: todo is one array shared by all requests.
AwaitedByAll(rs, r) == {q \in DOMAIN rs : rs[q].pc # "idle"}

\* const todo = []: the requests whose promises request r awaits, its own.
AwaitedBy(rs, r) == {r}

\* The value of file.detailedCoverage once a request has stored its array.
StoredDetails(dets) == [array |-> dets]

\* The synchronous part of request r on the k-th file of the run; the
\* requests are numbered in the order in which they are made.
StartRequest(r, k) ==
    /\ reqs[r].pc = "idle"
    /\ \A q \in DOMAIN reqs : q < r => reqs[q].pc # "idle"
    /\ k \in DOMAIN coverage
    /\ reqs' = [reqs EXCEPT ![r] = [IdleRequest EXCEPT !.pc = "awaiting",
                                                       !.file = k,
                                                       !.pending = AllCalls(coverage[k])]]
    /\ callLog' = callLog \o [n \in DOMAIN IssuedCalls(impl, coverage[k]) |->
                                [req |-> r,
                                 call |-> IssuedCalls(impl, coverage[k])[n].call,
                                 uri |-> IssuedCalls(impl, coverage[k])[n].uri,
                                 position |-> IssuedCalls(impl, coverage[k])[n].position]]
    /\ UNCHANGED <<applyVars, fault, rejected, files, impl, mapper, sumVars, rangeVars,
                   inputVars, detailVars>>

\* The promise of mapper call c of request r resolves.
CompleteCall(r, c) ==
    /\ reqs[r].pc = "awaiting"
    /\ c \in reqs[r].pending
    /\ Outcome(impl, FileOf(r), c) = "resolve"
    /\ reqs' = [reqs EXCEPT ![r].pending = @ \ {c}]
    /\ UNCHANGED <<applyVars, faultVars, files, impl, mapper, sumVars, rangeVars,
                   inputVars, detailVars>>

\* The then-callback of entry e of request r runs.
RunThen(r, e) ==
    /\ reqs[r].pc = "awaiting"
    /\ e \notin RanSet(r)
    /\ \E n \in DOMAIN Entries(FileOf(r)) : Entries(FileOf(r))[n] = e
    /\ CallsOf(FileOf(r), e) \cap reqs[r].pending = {}
    /\ reqs' = [reqs EXCEPT ![r].details =
                                EntryThen(impl, mapper, FileOf(r), e, DetailsOf(reqs, r)),
                            ![r].ran = Append(@, e)]
    /\ UNCHANGED <<applyVars, faultVars, files, impl, mapper, sumVars, rangeVars,
                   inputVars, detailVars>>

\* await Promise.all(todo) of request r is over.  context: return details.
\* legacy: file.detailedCoverage = details; return file.
ReturnRequest(r) ==
    /\ reqs[r].pc = "awaiting"
    /\ \A q \in AwaitedBy(reqs, r) : AllSettled(FileOf(q), RanSet(q))
    /\ IF impl = "context"
       THEN /\ reqs' = [reqs EXCEPT ![r].pc = "returned", ![r].result = reqs[r].details]
            /\ UNCHANGED coverage
       ELSE /\ reqs' = [reqs EXCEPT ![r].pc = "returned",
                                    ![r].result = [fileReturned |-> reqs[r].file]]
            /\ coverage' = [coverage EXCEPT ![reqs[r].file].detailedCoverage =
                                                StoredDetails(reqs[r].details)]
    /\ UNCHANGED <<faultVars, files, impl, mapper, sumVars, rangeVars, inputVars,
                   detailVars, disk, dirExists, defaultOptions, fileMapper, applyPc,
                   applyOpts, thrown, listeners, pendingUris, disposeCount, rm, rmCalls, escaped>>

\* The entries a file can have.
PairEntries == {<<"b", 1>>, <<"s", 1>>, <<"f", 1>>}

NextPair ==
    \/ RegisterFiles
    \/ \E r \in DOMAIN reqs : \E k \in DOMAIN coverage : StartRequest(r, k)
    \/ \E r \in DOMAIN reqs : \E c \in reqs[r].pending : CompleteCall(r, c)
    \/ \E r \in DOMAIN reqs : \E e \in PairEntries : RunThen(r, e)
    \/ \E r \in DOMAIN reqs : ReturnRequest(r)

SpecPair == InitPair /\ [][NextPair]_vars

\* The runs in which the files keep the uri of the report.
InitHang == InitPair /\ fileMapper = "unset"

\* The event loop runs every callback that is ready, and a promise of the
\* mapper that is not one of those that never settle does settle.
FairSpecPair ==
    /\ InitHang
    /\ [][NextPair]_vars
    /\ \A r \in 1 .. MaxRequests :
        /\ WF_vars(\E c \in reqs[r].pending : CompleteCall(r, c))
        /\ WF_vars(\E e \in PairEntries : RunThen(r, e))
        /\ WF_vars(ReturnRequest(r))

\* Request r has been made on a file for which a promise of the mapper never
\* settles.
Hung(r) ==
    /\ reqs[r].pc # "idle"
    /\ \E c \in AllCalls(FileOf(r)) : Outcome(impl, FileOf(r), c) = "hang"

\* The three counts of a registered file, from its report entry alone.
SummaryFromReport(fc) ==
    /\ fc.statementCoverage = NonzeroCount(fc.original.s)
    /\ fc.declarationCoverage = NonzeroCount(fc.original.f)
    /\ LET cells == UNION {{<<k, j>> : j \in DOMAIN fc.original.b[k]} :
                            k \in DOMAIN fc.original.b}
       IN  fc.branchCoverage =
              TestCoverageCount(Cardinality({c \in cells : fc.original.b[c[1]][c[2]] # 0}),
                                Cardinality(cells))

\* C14: a request on a file for which a mapper call never completes never
\* returns; every file of the report is registered with its three counts,
\* and the mapper has not been invoked as long as no request has been made;
\* a request on a file whose mapper calls all complete returns, whatever
\* becomes of the other requests.
C14_HungMapperHangsOneFile ==
    /\ [](\A r \in DOMAIN reqs : Hung(r) => reqs[r].pc # "returned")
    /\ [](coverage # <<>> =>
            /\ Len(coverage) = Len(files)
            /\ \A k \in DOMAIN coverage : SummaryFromReport(coverage[k])
            /\ (\A r \in DOMAIN reqs : reqs[r].pc = "idle") => callLog = <<>>)
    /\ \A r \in 1 .. MaxRequests :
          (reqs[r].pc = "awaiting" /\ ~Hung(r)) ~> (reqs[r].pc = "returned")

\* A request on a file with a mapper call that never completes waits for
\* nothing but such calls, and a request on the other file has returned.
C14_Witness ==
    \E r, q \in DOMAIN reqs :
        /\ Hung(r)
        /\ reqs[r].pc = "awaiting"
        /\ \A c \in reqs[r].pending : Outcome(impl, FileOf(r), c) = "hang"
        /\ reqs[q].pc = "returned"
        /\ ~Hung(q)
        /\ reqs[q].file # reqs[r].file
        /\ SummaryFromReport(FileOf(r))

\* The list request r builds if it is the only request, its callbacks running
\* in the order in which they did run.
AloneList(r) ==
    RunThens(impl, mapper, FileOf(r), reqs[r].ran, [n \in DOMAIN reqs[r].ran |-> n], 1, <<>>)

\* The list a caller finds in what request r returned: the array (context),
\* the array stored on the returned file (legacy).
ListOf(r) ==
    IF impl = "context" THEN reqs[r].result
    ELSE coverage[reqs[r].result.fileReturned].detailedCoverage.array

\* The same records, each as often, whatever the order.
SameRecords(A, B) ==
    /\ Len(A) = Len(B)
    /\ \A x \in {A[n] : n \in DOMAIN A} \cup {B[n] : n \in DOMAIN B} :
          Cardinality({n \in DOMAIN A : A[n] = x}) = Cardinality({n \in DOMAIN B : B[n] = x})

\* What a request must leave alone in a file.
RawAndSummary(fc) ==
    [uri |-> fc.uri, original |-> fc.original, compiledUri |-> fc.compiledUri,
     options |-> fc.options, statementCoverage |-> fc.statementCoverage,
     branchCoverage |-> fc.branchCoverage, declarationCoverage |-> fc.declarationCoverage]

\* C17 as stated: the requests write to nothing they share, so that a file
\* is as it was registered, raw data and summary counts included, and the list
\* found in what a request returned is exactly the list the request builds
\* when run alone, whatever other requests do.
C17_NoSharedStateAsStated ==
    /\ \A k \in DOMAIN coverage :
          coverage[k] = IstanbulFileCoverage(coverage[k].uri, coverage[k].original,
                                             coverage[k].compiledUri, coverage[k].options)
    /\ \A r \in DOMAIN reqs : reqs[r].pc = "returned" => ListOf(r) = AloneList(r)

\* C17 amended: every request pushes to an array of its own, which holds at
\* any time exactly the records the request alone would have built, and no
\* request changes the raw data or the summary counts of a file.  context:
\* the request returns that array.  legacy: the request stores that array in
\* file.detailedCoverage and returns the file, so the file holds the array of
\* the request on it that returned last, with the same records as the array
\* of any other request on it, in an order that may differ.
C17_OwnListSharedOnlyThroughFile ==
    /\ [](\A r \in DOMAIN reqs : reqs[r].pc # "idle" => reqs[r].details = AloneList(r))
    /\ [](\A r \in DOMAIN reqs : reqs[r].pc = "returned" =>
            /\ impl = "context" => reqs[r].result = AloneList(r)
            /\ impl = "legacy" =>
                  /\ \E q \in DOMAIN reqs :
                        /\ reqs[q].pc = "returned"
                        /\ reqs[q].file = reqs[r].file
                        /\ ListOf(r) = reqs[q].details
                  /\ SameRecords(ListOf(r), AloneList(r)))
    /\ [][coverage # <<>> =>
            \A k \in DOMAIN coverage :
                RawAndSummary(coverage'[k]) = RawAndSummary(coverage[k])]_vars

\* Two requests on the same file have both returned, their callbacks having
\* run in different orders.
C17_Witness ==
    /\ reqs[1].pc = "returned"
    /\ reqs[2].pc = "returned"
    /\ reqs[1].file = reqs[2].file
    /\ reqs[1].ran # reqs[2].ran
    /\ Len(reqs[1].details) = 2
    /\ SameRecords(reqs[1].details, reqs[2].details)

\* ------------------------------------- uris of the files and of the calls

\* The files registered for entry k of the report.
RegisteredFor(k) == {n \in DOMAIN coverage : coverage[n].original = files[k]}

\* C19: every mapper call of a request is made with the uri of the path the
\* report gives for the request's file, whatever uri the file is reported
\* under; once the files are registered every entry of the report has
\* exactly one file, and a file for which the file-uri mapper answered
\* nothing is reported under the uri of its report path.
C19_CompiledUriForCallsAndFallback ==
    /\ \A n \in DOMAIN callLog :
            callLog[n].uri = UriFile(FileOf(callLog[n].req).original.path)
    /\ coverage # <<>> =>
            /\ Len(coverage) = Len(files)
            /\ \A k \in DOMAIN files : Cardinality(RegisteredFor(k)) = 1
            /\ \A n \in DOMAIN coverage :
                    /\ coverage[n].compiledUri = UriFile(coverage[n].original.path)
                    /\ ~MapFileUriAnswers(fileMapper, coverage[n].compiledUri) =>
                            coverage[n].uri = coverage[n].compiledUri

\* The file-uri mapper answered nothing for one file and moved the other; a
\* request for each has returned and the mapper was called for both.
C19_Witness ==
    /\ \E r \in DOMAIN reqs :
            /\ reqs[r].pc = "returned"
            /\ FileOf(r).uri # FileOf(r).compiledUri
            /\ \E n \in DOMAIN callLog : callLog[n].req = r
    /\ \E r \in DOMAIN reqs :
            /\ reqs[r].pc = "returned"
            /\ fileMapper # "unset"
            /\ FileOf(r).uri = FileOf(r).compiledUri
            /\ \E n \in DOMAIN callLog : callLog[n].req = r

\* ------------------------------------- hits and labels of a branch group

\* The sum of the numbers of a sequence.
RECURSIVE Total(_)
Total(counts) == IF counts = <<>> THEN 0 ELSE Head(counts) + Total(Tail(counts))

\* A hit in the mode of the run: the count, or whether it is positive.  The
\* legacy class has the boolean mode only.
InMode(n) ==
    IF impl = "context" /\ ~options.booleanCounts THEN Count(n) ELSE Bool(n > 0)

\* C15: the record of every emitted branch group carries, as its own hit, the
\* sum of the raw counts b[key][i] of all its outcomes (the sum in count mode,
\* sum > 0 in boolean mode), and its i-th branch the count b[key][i] alone, in
\* the same mode.
C15_GroupHitIsSumOfOutcomes ==
    pc = "returned" =>
        \A k \in DOMAIN raw.branchMap : \A rec \in RecordsFrom(DetailList, <<"b", k>>) :
            /\ rec.executed = InMode(Total(raw.b[k]))
            /\ Len(rec.branches) = Len(raw.b[k])
            /\ \A j \in DOMAIN rec.branches : rec.branches[j].executed = InMode(raw.b[k][j])

\* A group whose first outcome was taken once and whose second never has been
\* emitted in count mode with the hit 1, and 1 and 0 on its branches.
C15_Witness ==
    /\ pc = "returned"
    /\ impl = "context"
    /\ ~options.booleanCounts
    /\ raw.b[1] = <<1, 0>>
    /\ \E rec \in RecordsFrom(DetailList, <<"b", 1>>) :
          /\ rec.executed = Count(1)
          /\ rec.branches[1].executed = Count(1)
          /\ rec.branches[2].executed = Count(0)

\* C16: in the record of every emitted branch group of type "if" the first
\* branch is labelled "if" and the second, if there is one, "else"; in the
\* record of a group of any other type no branch has a label.
C16_LabelsOnlyOnIfGroups ==
    pc = "returned" =>
        \A k \in DOMAIN raw.branchMap : \A rec \in RecordsFrom(DetailList, <<"b", k>>) :
            IF raw.branchMap[k].type = "if"
            THEN /\ rec.branches[1].label = "if"
                 /\ Len(rec.branches) >= 2 => rec.branches[2].label = "else"
            ELSE \A j \in DOMAIN rec.branches : rec.branches[j].label = NoLabel

\* A group that is not an if, with two outcomes, has been emitted without a
\* label on either branch.
C16_Witness ==
    /\ pc = "returned"
    /\ raw.branchMap[1].type = "cond-expr"
    /\ \E rec \in RecordsFrom(DetailList, <<"b", 1>>) :
          /\ Len(rec.branches) = 2
          /\ rec.branches[1].label = NoLabel
          /\ rec.branches[2].label = NoLabel
====
